---------------------------- MODULE Spec2Model ----------------------------
(***************************************************************************)
(* Weekly coach feedback job (src/main.py): settings are read from the     *)
(* environment, one parameterised query is run against the warehouse, the  *)
(* rows are grouped per coach, one report per coach is rendered and mailed,*)
(* and the exit status reports whether any coach failed.                   *)
(*                                                                         *)
(* Conventions.  A text value is a sequence of one-character strings.  A   *)
(* nullable value (SQL NULL, Python None) is a sequence of length 0 or 1:  *)
(* None is <<>> and Some(x) is <<x>>.  A date or timestamp is a day number *)
(* (days since a Monday), so that truncation to the week is arithmetic.    *)
(***************************************************************************)
EXTENDS Integers, Sequences, FiniteSets, TLC

VARIABLES
    environ,      \* os.environ: setting name -> None | Some(text)
    argv,         \* the parsed command line: [test, coach, to]
    submissions,  \* the per_submission rows of the warehouse
    directory,    \* DIM__COACHES: sequence of [coach_name, coach_email]
    faults,       \* whether the warehouse, the templates and the relay may fail
    pc,           \* position of the script
    config,       \* the module-level settings (lines 44-56), name -> value
    mode,         \* [week_offset, coach_filter] chosen in __main__
    conn,         \* "none" | "open" | "closed"
    exc,          \* an exception is propagating out of fetch_feedback
    rows,         \* the rows fetched by cursor.fetchall()
    coaches,      \* the ordered mapping returned by fetch_feedback
    idx,          \* position of the per-coach loop in coaches
    html,         \* None | Some(report rendered for coaches[idx])
    errors,       \* the failure list
    outbox,       \* messages accepted by the mail relay, in order
    log,          \* history: calls made and lines logged, in order
    exit          \* None while running | Some(process exit status)

vars == <<environ, argv, submissions, directory, faults, pc, config, mode, conn, exc,
          rows, coaches, idx, html, errors, outbox, log, exit>>

---------------------------------------------------------------------------
(* Values *)

None == <<>>
Some(x) == <<x>>
Val(o) == o[1]

UpperCase == <<"A","B","C","D","E","F","G","H","I","J","K","L","M",
               "N","O","P","Q","R","S","T","U","V","W","X","Y","Z">>
LowerCase == <<"a","b","c","d","e","f","g","h","i","j","k","l","m",
               "n","o","p","q","r","s","t","u","v","w","x","y","z">>

\* LOWER() of one character
LowerChar(c) ==
    IF \E i \in 1..Len(UpperCase) : UpperCase[i] = c
    THEN LowerCase[CHOOSE i \in 1..Len(UpperCase) : UpperCase[i] = c]
    ELSE c

\* LOWER() of a text
Lower(s) == [i \in 1..Len(s) |-> LowerChar(s[i])]

StartsWith(s, p) == Len(s) >= Len(p) /\ SubSeq(s, 1, Len(p)) = p

Contains(s, p) ==
    \E i \in 1..(Len(s) - Len(p) + 1) : SubSeq(s, i, i + Len(p) - 1) = p

Digits == <<"0","1","2","3","4","5","6","7","8","9">>

IsDigit(c) == \E d \in 1..10 : Digits[d] = c

DigitValue(c) == (CHOOSE d \in 1..10 : Digits[d] = c) - 1

RECURSIVE StrOfNat(_)
\* decimal rendering of a natural number, as str() and strftime write one
StrOfNat(n) ==
    IF n < 10 THEN <<Digits[n + 1]>>
    ELSE Append(StrOfNat(n \div 10), Digits[(n % 10) + 1])

RECURSIVE NatOfStr(_)
\* value of a non-empty text of decimal digits
NatOfStr(s) ==
    IF Len(s) = 1 THEN DigitValue(s[1])
    ELSE 10 * NatOfStr(SubSeq(s, 1, Len(s) - 1)) + DigitValue(s[Len(s)])

\* int(text) succeeds (on the digit texts the model draws from)
IntParses(s) == Len(s) > 0 /\ \A i \in 1..Len(s) : IsDigit(s[i])

RECURSIVE SumSeq(_)
SumSeq(s) == IF s = <<>> THEN 0 ELSE Head(s) + SumSeq(Tail(s))

---------------------------------------------------------------------------
(* Settings: the module-level block, lines 36-56 *)

REQUIRED == "required"
OPTIONAL == "optional"

\* the assignments of lines 44-56, in order: name, kind, default
Settings == <<
    [name |-> "SNOWFLAKE_ACCOUNT",         kind |-> REQUIRED, default |-> <<>>],
    [name |-> "SNOWFLAKE_USER",            kind |-> REQUIRED, default |-> <<>>],
    [name |-> "SNOWFLAKE_DATABASE",        kind |-> OPTIONAL,
     default |-> <<"A","N","A","L","Y","T","I","C","S","_","D","E","V">>],
    [name |-> "SNOWFLAKE_WAREHOUSE",       kind |-> OPTIONAL,
     default |-> <<"C","O","M","P","U","T","E","_","W","H">>],
    [name |-> "SNOWFLAKE_ROLE",            kind |-> OPTIONAL, default |-> <<>>],
    [name |-> "SNOWFLAKE_PRIVATE_KEY_PEM", kind |-> REQUIRED, default |-> <<>>],
    [name |-> "SMTP_SERVER",               kind |-> OPTIONAL,
     default |-> <<"s","m","t","p",".","g","m","a","i","l",".","c","o","m">>],
    [name |-> "SMTP_PORT",                 kind |-> OPTIONAL,
     default |-> <<"5","8","7">>],
    [name |-> "SMTP_USER",                 kind |-> REQUIRED, default |-> <<>>],
    [name |-> "SMTP_PASS",                 kind |-> REQUIRED, default |-> <<>>],
    [name |-> "EMAIL_FROM",                kind |-> OPTIONAL, default |-> <<>>],
    [name |-> "EMAIL_FROM_NAME",           kind |-> OPTIONAL,
     default |-> <<"C","o","a","c","h","i","n","g"," ","T","e","a","m">>] >>

SettingNames == {Settings[i].name : i \in 1..Len(Settings)}

RequiredNames == {Settings[i].name : i \in {j \in 1..Len(Settings) : Settings[j].kind = REQUIRED}}

\* line 38, "not value": true of None and of ""
NotValue(value) == value = None \/ Val(value) = <<>>

RECURSIVE LoadFrom(_, _, _)
\* lines 44-56 from assignment i on, over the environment env: the first
\* assignment that stops the import, or the settings once all are made
LoadFrom(env, i, cfg) ==
    IF i > Len(Settings) THEN [status |-> "ok", name |-> "", config |-> cfg]
    ELSE
      LET s == Settings[i]
          v == env[s.name]
      IN IF s.kind = REQUIRED
         THEN \* _require_env
              IF NotValue(v)
              THEN [status |-> "missing", name |-> s.name, config |-> cfg]
              ELSE LoadFrom(env, i + 1, [cfg EXCEPT ![s.name] = v])
         ELSE \* os.environ.get(name, default)
              LET got == IF v = None THEN s.default ELSE Val(v)
              IN IF s.name = "SMTP_PORT"
                 THEN IF IntParses(got)
                      THEN LoadFrom(env, i + 1,
                                    [cfg EXCEPT ![s.name] = Some(NatOfStr(got))])
                      ELSE [status |-> "ValueError", name |-> s.name, config |-> cfg]
                 ELSE LoadFrom(env, i + 1, [cfg EXCEPT ![s.name] = Some(got)])

NoConfig == [n \in SettingNames |-> None]

---------------------------------------------------------------------------
(* The warehouse query, FEEDBACK_QUERY lines 121-154, over the rows of the *)
(* per_submission CTE                                                      *)

DaysPerWeek == 7

\* CURRENT_DATE: a Thursday, two weeks after day 0
CurrentDate == 2 * DaysPerWeek + 3

\* DATE_TRUNC('WEEK', d)
DateTruncWeek(d) == d - (d % DaysPerWeek)

\* DATE_TRUNC('WEEK', DATEADD('week', week_offset, CURRENT_DATE))
TargetWeek(week_offset) == DateTruncWeek(CurrentDate + DaysPerWeek * week_offset)

\* ILikeYes with the pattern '%Yes%': "yes" anywhere in the answer
ILikeYesAnywhere(consent_raw) ==
    IF consent_raw = None THEN None
    ELSE Some(Contains(Lower(Val(consent_raw)), Lower(<<"Y","e","s">>)))

\* consent_raw ILIKE 'Yes%': NULL on NULL, else a case-insensitive prefix match
ILikeYes(consent_raw) ==
    IF consent_raw = None THEN None
    ELSE Some(StartsWith(Lower(Val(consent_raw)), Lower(<<"Y","e","s">>)))

\* LOWER(consent_raw) LIKE '%anonym%'
LikeAnonym(consent_raw) ==
    IF consent_raw = None THEN None
    ELSE Some(Contains(Lower(Val(consent_raw)), <<"a","n","o","n","y","m">>))

\* SQL three-valued AND
And3(a, b) ==
    IF a = Some(FALSE) \/ b = Some(FALSE) THEN Some(FALSE)
    ELSE IF a = None \/ b = None THEN None
    ELSE Some(TRUE)

\* a WHEN, IFF or WHERE condition selects only on TRUE
IsTrue(a) == a = Some(TRUE)

\* IFF(consent_raw ILIKE 'Yes%', TRUE, FALSE)
ConsentToShare(consent_raw) == IF IsTrue(ILikeYes(consent_raw)) THEN TRUE ELSE FALSE

\* the CASE of lines 129-133
ShareAnonymized(consent_raw) ==
    IF IsTrue(And3(ILikeYes(consent_raw), LikeAnonym(consent_raw))) THEN Some(TRUE)
    ELSE IF IsTrue(ILikeYes(consent_raw)) THEN Some(FALSE)
    ELSE None

\* MemberNameOut without the CASE: the member name as submitted
MemberNameKept(consent_raw, member_name) == member_name

\* the CASE of lines 134-137
MemberNameOut(consent_raw, member_name) ==
    IF IsTrue(And3(ILikeYes(consent_raw), LikeAnonym(consent_raw))) THEN None
    ELSE member_name

\* one row of the final CTE
Final(ps) ==
    [submission_id           |-> ps.submission_id,
     created_at              |-> ps.created_at,
     week_start              |-> DateTruncWeek(ps.created_at),
     customer_name           |-> ps.customer_name,
     coach_name              |-> ps.coach_name,
     consent_to_share        |-> ConsentToShare(ps.consent_raw),
     share_anonymized        |-> ShareAnonymized(ps.consent_raw),
     member_name             |-> MemberNameOut(ps.consent_raw, ps.member_name),
     rating                  |-> ps.rating,
     comments                |-> ps.comments,
     consent_raw             |-> ps.consent_raw,
     testimonial_consent_raw |-> ps.testimonial_consent_raw]

\* the WHERE clause, lines 150-153
Where(f, week_offset, coach_filter) ==
    /\ f.consent_to_share = TRUE
    /\ f.coach_name # None
    /\ f.week_start = TargetWeek(week_offset)
    /\ \/ coach_filter = None
       \/ Lower(Val(f.coach_name)) = Lower(Val(coach_filter))

\* the pairs (submission, directory entry) the JOIN and the WHERE keep
Selected(subs, dir, week_offset, coach_filter) ==
    {p \in (1..Len(subs)) \X (1..Len(dir)) :
        /\ subs[p[1]].coach_name # None
        /\ Val(subs[p[1]].coach_name) = dir[p[2]].coach_name
        /\ Where(Final(subs[p[1]]), week_offset, coach_filter)}

\* SELECT f.*, d.coach_email
OutputRow(subs, dir, p) ==
    [coach_email |-> dir[p[2]].coach_email] @@ Final(subs[p[1]])

RECURSIVE OrderedBy(_, _)
\* ORDER BY f.created_at DESC: every order of the pairs P with the creation
\* times descending; rows created at the same time come in any order
OrderedBy(subs, P) ==
    IF P = {} THEN {<<>>}
    ELSE LET latest == {p \in P : \A q \in P :
                            subs[p[1]].created_at >= subs[q[1]].created_at}
         IN UNION {{<<p>> \o rest : rest \in OrderedBy(subs, P \ {p})} : p \in latest}

\* the results cursor.fetchall() may return for the query
QueryResults(subs, dir, week_offset, coach_filter) ==
    {[k \in 1..Len(order) |-> OutputRow(subs, dir, order[k])] :
        order \in OrderedBy(subs, Selected(subs, dir, week_offset, coach_filter))}

---------------------------------------------------------------------------
(* fetch_feedback: grouping, lines 175-187 *)

\* AddRow looking only at the group added last: rows are grouped with their
\* neighbours, as a groupby over an unsorted result does
AddRowAdjacent(cs, row) ==
    LET name == row.coach_name
    IN IF cs # <<>> /\ cs[Len(cs)].coach_name = name
       THEN [cs EXCEPT ![Len(cs)].rows = Append(@, row)]
       ELSE Append(cs, [coach_name  |-> name,
                        coach_email |-> row.coach_email,
                        week_start  |-> row.week_start,
                        rows        |-> <<row>>])

\* one pass of the loop body, lines 177-185, over the ordered mapping cs
AddRow(cs, row) ==
    LET name == row.coach_name
    IN IF \E k \in 1..Len(cs) : cs[k].coach_name = name
       THEN LET k == CHOOSE j \in 1..Len(cs) : cs[j].coach_name = name
            IN [cs EXCEPT ![k].rows = Append(@, row)]
       ELSE Append(cs, [coach_name  |-> name,
                        coach_email |-> row.coach_email,
                        week_start  |-> row.week_start,
                        rows        |-> <<row>>])

RECURSIVE GroupRows(_, _)
\* the loop of lines 176-185: rs are the rows left, acc the mapping so far
GroupRows(rs, acc) ==
    IF rs = <<>> THEN acc ELSE GroupRows(Tail(rs), AddRow(acc, Head(rs)))

---------------------------------------------------------------------------
(* render_report, lines 193-214 *)

MaxRating == 5

\* RoundTenths cutting the mean off after the first decimal
TruncTenths(total, n) == (10 * total) \div n

\* round(total / n, 1), in tenths.  total / n is the double nearest the
\* quotient and round() rounds that double correctly, a tie to the even
\* tenth; for n < 20 a quotient on a tie is an odd multiple of 1/4, which
\* a double holds exactly, so the result is that of the exact quotient.
RoundTenths(total, n) ==
    LET q == (10 * total) \div n
        r == (10 * total) % n
    IN IF 2 * r < n THEN q
       ELSE IF 2 * r > n THEN q + 1
       ELSE IF q % 2 = 0 THEN q ELSE q + 1

\* line 201: the ratings that are not None
Ratings(rs) ==
    LET rated == SelectSeq(rs, LAMBDA r : r.rating # None)
    IN [k \in 1..Len(rated) |-> Val(rated[k].rating)]

\* line 202, in tenths
AvgRating(rs) ==
    IF Len(Ratings(rs)) > 0
    THEN Some(RoundTenths(SumSeq(Ratings(rs)), Len(Ratings(rs))))
    ELSE None

\* strftime(fmt) of a date: the format, then the day number in decimal
StrfTime(d, fmt) == fmt \o <<":">> \o StrOfNat(d)

\* the variables handed to the template, lines 204-214 (generated_at, the
\* clock, left out)
RenderReport(coach_data) ==
    [coach_name      |-> coach_data.coach_name,
     week_start      |-> StrfTime(coach_data.week_start,
                                  <<"%","B"," ","%","d",","," ","%","Y">>),
     total_responses |-> Len(coach_data.rows),
     avg_rating      |-> AvgRating(coach_data.rows),
     max_rating      |-> MaxRating,
     feedback_rows   |-> coach_data.rows]

---------------------------------------------------------------------------
(* send_email, lines 220-241, and the subject and recipient of lines 297-306 *)

TestMarker == <<"[","T","E","S","T","]"," ">>

\* the "-" stands for the dash of line 300
SubjectText ==
    <<"Y","o","u","r"," ","W","e","e","k","l","y"," ","F","e","e","d","b","a","c","k"," ","S","u","m","m","a","r","y"," ">> \o <<"-">> \o
    <<" ","W","e","e","k"," ","o","f"," ">>

\* lines 297-302
Subject(args, coach_data) ==
    LET week_label == StrfTime(coach_data.week_start,
                               <<"%","b"," ","%","d",","," ","%","Y">>)
        subject == SubjectText \o week_label
    IN IF args.test THEN TestMarker \o subject ELSE subject

\* ToEmail without the override of test mode
ToEmailOfCoach(args, coach_data) == coach_data.coach_email

\* line 305
ToEmail(args, coach_data) ==
    IF args.test THEN Val(args.to) ELSE coach_data.coach_email

\* line 306
ToName(args, coach_data) ==
    IF args.test THEN Val(args.to) ELSE Val(coach_data.coach_name)

\* lines 221-232: the message send_email composes
Message(cfg, to_email, to_name, subject, html_body) ==
    LET from_addr == IF Val(cfg["EMAIL_FROM"]) # <<>>
                     THEN Val(cfg["EMAIL_FROM"]) ELSE Val(cfg["SMTP_USER"])
    IN [Subject |-> subject,
        From    |-> [name |-> Val(cfg["EMAIL_FROM_NAME"]), addr |-> from_addr],
        To      |-> [name |-> to_name, addr |-> to_email],
        html    |-> html_body]

\* how the with-block of lines 234-239 may end:
\*   "connect"  smtplib.SMTP(...) raises: no session
\*   "session"  ehlo, starttls or login raises
\*   "data"     send_message raises: the relay has not taken the message
\*   "quit"     send_message returns, then leaving the with-block raises
\*              (SMTP.__exit__ sends QUIT and raises on an answer other than 221)
\*   "ok"       nothing raises
SendOutcomes == {"connect", "session", "data", "quit", "ok"}

---------------------------------------------------------------------------
(* The script, step by step *)

Event(op, arg, raised) == [op |-> op, arg |-> arg, raised |-> raised]

\* sys.exit(status), or the interpreter ending the process
Exit(status) == /\ pc' = "exit"
                /\ exit' = Some(status)

\* an exception nothing catches: traceback, exit status 1
Uncaught == Exit(1)

\* LoadSettings with a _require_env that logs and returns: no sys.exit(1)
LoadSettingsLogsOnly ==
    /\ pc = "import"
    /\ LET r == LoadFrom(environ, 1, NoConfig)
       IN /\ config' = r.config
          /\ IF r.status = "ok"
             THEN /\ pc' = "main"
                  /\ UNCHANGED <<exit, log>>
             ELSE IF r.status = "missing"
             THEN /\ log' = Append(log, Event("log.missing_env", r.name, FALSE))
                  /\ pc' = "main"
                  /\ UNCHANGED exit
             ELSE /\ log' = Append(log, Event("int", r.name, TRUE))
                  /\ Uncaught
    /\ UNCHANGED <<environ, argv, submissions, directory, faults, mode, conn, exc,
                   rows, coaches, idx, html, errors, outbox>>

\* the module-level block, lines 44-56
LoadSettings ==
    /\ pc = "import"
    /\ LET r == LoadFrom(environ, 1, NoConfig)
       IN /\ config' = r.config
          /\ IF r.status = "ok"
             THEN /\ pc' = "main"
                  /\ UNCHANGED <<exit, log>>
             ELSE IF r.status = "missing"
             THEN /\ log' = Append(log, Event("log.missing_env", r.name, FALSE))
                  /\ Exit(1)
             ELSE /\ log' = Append(log, Event("int", r.name, TRUE))
                  /\ Uncaught
    /\ UNCHANGED <<environ, argv, submissions, directory, faults, mode, conn, exc,
                   rows, coaches, idx, html, errors, outbox>>

\* Falsy as "args.coach is None": an empty argument passes
IsNone(o) == o = None

\* line 271, "not args.coach": true of None and of ""
Falsy(o) == o = None \/ Val(o) = <<>>

\* lines 268-280
ChooseMode ==
    /\ pc = "main"
    /\ IF argv.test
       THEN IF Falsy(argv.coach) \/ Falsy(argv.to)
            THEN /\ log' = Append(log, Event("log.usage", "", FALSE))
                 /\ Exit(1)
                 /\ UNCHANGED mode
            ELSE /\ mode' = [week_offset |-> 0, coach_filter |-> argv.coach]
                 /\ pc' = "connect"
                 /\ UNCHANGED <<log, exit>>
       ELSE /\ mode' = [week_offset |-> -1, coach_filter |-> None]
            /\ pc' = "connect"
            /\ UNCHANGED <<log, exit>>
    /\ UNCHANGED <<environ, argv, submissions, directory, faults, config, conn, exc,
                   rows, coaches, idx, html, errors, outbox>>

\* line 282 and get_snowflake_connection, lines 62-76: the key may fail to
\* load ("pem") and the connect call may fail ("connect")
GetSnowflakeConnection ==
    /\ pc = "connect"
    /\ \E outcome \in (IF faults THEN {"pem", "connect", "ok"} ELSE {"ok"}) :
         IF outcome = "pem"
         THEN /\ log' = Append(log, Event("load_pem_private_key", "", TRUE))
              /\ Uncaught
              /\ UNCHANGED conn
         ELSE IF outcome = "connect"
         THEN /\ log' = Append(log, Event("snowflake.connect", "", TRUE))
              /\ Uncaught
              /\ UNCHANGED conn
         ELSE /\ log' = Append(log, Event("snowflake.connect", "", FALSE))
              /\ conn' = "open"
              /\ pc' = "fetch"
              /\ UNCHANGED exit
    /\ UNCHANGED <<environ, argv, submissions, directory, faults, config, mode, exc,
                   rows, coaches, idx, html, errors, outbox>>

\* fetch_feedback, lines 158-187, called at line 284.  conn.cursor() may
\* raise ("cursor"); execute, description or fetchall may raise ("execute");
\* else the rows are grouped and returned.  cursor.close() in the finally
\* does not raise: the connector's close() swallows what goes wrong.
FetchFeedback ==
    /\ pc = "fetch"
    /\ \E outcome \in (IF faults THEN {"cursor", "execute", "ok"} ELSE {"ok"}) :
         IF outcome = "cursor"
         THEN /\ log' = Append(log, Event("conn.cursor", "", TRUE))
              /\ exc' = TRUE
              /\ UNCHANGED <<rows, coaches>>
         ELSE IF outcome = "execute"
         THEN /\ log' = Append(log, Event("cursor.execute", "", TRUE))
              /\ exc' = TRUE
              /\ UNCHANGED <<rows, coaches>>
         ELSE \E result \in QueryResults(submissions, directory,
                                         mode.week_offset, mode.coach_filter) :
                /\ log' = Append(log, Event("cursor.execute", "", FALSE))
                /\ rows' = result
                /\ coaches' = GroupRows(result, <<>>)
                /\ UNCHANGED exc
    /\ pc' = "close"
    /\ UNCHANGED <<environ, argv, submissions, directory, faults, config, mode, conn,
                   idx, html, errors, outbox, exit>>

\* ConnClose without the finally: the connection is closed only when
\* fetch_feedback returns
ConnCloseOnReturn ==
    /\ pc = "close"
    /\ IF exc
       THEN /\ Uncaught
            /\ UNCHANGED <<conn, log>>
       ELSE /\ conn' = "closed"
            /\ log' = Append(log, Event("conn.close", "", FALSE))
            /\ pc' = "check"
            /\ UNCHANGED exit
    /\ UNCHANGED <<environ, argv, submissions, directory, faults, config, mode, exc,
                   rows, coaches, idx, html, errors, outbox>>

\* the finally of lines 285-286: conn.close(), which logs and swallows its
\* own errors; then the exception, if any, goes on and ends the process
ConnClose ==
    /\ pc = "close"
    /\ conn' = "closed"
    /\ log' = Append(log, Event("conn.close", "", FALSE))
    /\ IF exc
       THEN Uncaught
       ELSE /\ pc' = "check"
            /\ UNCHANGED exit
    /\ UNCHANGED <<environ, argv, submissions, directory, faults, config, mode, exc,
                   rows, coaches, idx, html, errors, outbox>>

\* lines 288-293
CheckEmpty ==
    /\ pc = "check"
    /\ IF coaches = <<>>
       THEN /\ log' = Append(log, Event("log.no_feedback", "", FALSE))
            /\ Exit(0)
            /\ UNCHANGED <<errors, idx>>
       ELSE /\ errors' = <<>>
            /\ idx' = 1
            /\ pc' = "render"
            /\ UNCHANGED <<log, exit>>
    /\ UNCHANGED <<environ, argv, submissions, directory, faults, config, mode, conn,
                   exc, rows, coaches, html, outbox>>

\* the for statement of line 294 moving on from coaches[idx]
NextCoach ==
    /\ idx' = idx + 1
    /\ pc' = IF idx < Len(coaches) THEN "render" ELSE "finish"

\* the handler of lines 314-316
Failed(coach_name, events) ==
    /\ log' = log \o events \o <<Event("log.failed", coach_name, FALSE)>>
    /\ errors' = Append(errors, coach_name)
    /\ html' = None
    /\ NextCoach

\* line 296: render_report returns the report or raises
Render ==
    /\ pc = "render"
    /\ LET coach_data == coaches[idx]
           coach_name == coach_data.coach_name
       IN \E raises \in (IF faults THEN BOOLEAN ELSE {FALSE}) :
            IF raises
            THEN Failed(coach_name, <<Event("render_report", coach_name, TRUE)>>)
            ELSE /\ log' = Append(log, Event("render_report", coach_name, FALSE))
                 /\ html' = Some(RenderReport(coach_data))
                 /\ pc' = "send"
                 /\ UNCHANGED <<errors, idx>>
    /\ UNCHANGED <<environ, argv, submissions, directory, faults, config, mode, conn,
                   exc, rows, coaches, outbox, exit>>

\* lines 297-313: the subject, the recipient and send_email
Send ==
    /\ pc = "send"
    /\ LET coach_data == coaches[idx]
           coach_name == coach_data.coach_name
           msg == Message(config, ToEmail(argv, coach_data),
                          ToName(argv, coach_data),
                          Subject(argv, coach_data), Val(html))
           opened == <<Event("smtplib.SMTP", coach_name, FALSE)>>
           sent == <<Event("smtp.send_message", coach_name, FALSE)>>
       IN \E outcome \in (IF faults THEN SendOutcomes ELSE {"ok"}) :
            IF outcome = "connect"
            THEN /\ Failed(coach_name,
                           <<Event("smtplib.SMTP", coach_name, TRUE),
                             Event("send_email", coach_name, TRUE)>>)
                 /\ UNCHANGED outbox
            ELSE IF outcome = "session"
            THEN /\ Failed(coach_name,
                           opened \o <<Event("send_email", coach_name, TRUE)>>)
                 /\ UNCHANGED outbox
            ELSE IF outcome = "data"
            THEN /\ Failed(coach_name,
                           opened \o <<Event("smtp.send_message", coach_name, TRUE),
                                       Event("send_email", coach_name, TRUE)>>)
                 /\ UNCHANGED outbox
            ELSE IF outcome = "quit"
            THEN /\ outbox' = Append(outbox, msg)
                 /\ Failed(coach_name,
                           opened \o sent \o <<Event("send_email", coach_name, TRUE)>>)
            ELSE /\ outbox' = Append(outbox, msg)
                 /\ log' = log \o opened \o sent
                                \o <<Event("send_email", coach_name, FALSE)>>
                 /\ html' = None
                 /\ NextCoach
                 /\ UNCHANGED errors
    /\ UNCHANGED <<environ, argv, submissions, directory, faults, config, mode, conn,
                   exc, rows, coaches, exit>>

\* Finish without the sys.exit(1) of line 320: the errors are only logged
FinishLogsOnly ==
    /\ pc = "finish"
    /\ IF errors # <<>>
       THEN /\ log' = Append(log, Event("log.finished_with_errors", errors, FALSE))
            /\ Exit(0)
       ELSE /\ log' = Append(log, Event("log.all_done", Len(coaches), FALSE))
            /\ Exit(0)
    /\ UNCHANGED <<environ, argv, submissions, directory, faults, config, mode, conn,
                   exc, rows, coaches, idx, html, errors, outbox>>

\* lines 318-322
Finish ==
    /\ pc = "finish"
    /\ IF errors # <<>>
       THEN /\ log' = Append(log, Event("log.finished_with_errors", errors, FALSE))
            /\ Exit(1)
       ELSE /\ log' = Append(log, Event("log.all_done", Len(coaches), FALSE))
            /\ Exit(0)
    /\ UNCHANGED <<environ, argv, submissions, directory, faults, config, mode, conn,
                   exc, rows, coaches, idx, html, errors, outbox>>

Next ==
    \/ LoadSettings
    \/ ChooseMode
    \/ GetSnowflakeConnection
    \/ FetchFeedback
    \/ ConnClose
    \/ CheckEmpty
    \/ Render
    \/ Send
    \/ Finish

---------------------------------------------------------------------------
(* Inputs *)

Jo == <<"J","o">>
jo == <<"j","o">>
Al == <<"A","l">>
Zed == <<"Z","e","d">>

Yes == <<"Y","e","s">>
No == <<"N","o">>

Override == <<"q","a","@","x">>

\* the coach directory: names differing only in case are different coaches
Directory ==
    << [coach_name |-> Jo, coach_email |-> <<"j","o","@","x">>],
       [coach_name |-> jo, coach_email |-> <<"j","2","@","x">>],
       [coach_name |-> Al, coach_email |-> <<"a","l","@","x">>] >>

\* a directory that lists one coach twice, with two addresses
DirectoryTwice ==
    Append(Directory, [coach_name |-> Al, coach_email |-> <<"a","2","@","x">>])

\* a per_submission row; the table gives it its submission_id
Sub(coach, day, consent, member, rating) ==
    [submission_id           |-> 0,
     created_at              |-> day,
     customer_name           |-> Some(<<"A","c","m","e">>),
     coach_name              |-> coach,
     member_name             |-> member,
     comments                |-> None,
     consent_raw             |-> consent,
     testimonial_consent_raw |-> None,
     rating                  |-> rating]

\* the tables of at most n rows drawn from the candidates C
Tables(C, n) ==
    UNION {{[i \in 1..k |-> [t[i] EXCEPT !.submission_id = i]] : t \in [1..k -> C]}
             : k \in 0..n}

LastWeek == CurrentDate - DaysPerWeek
ThisWeek == CurrentDate - 1

Member == Some(<<"M","e","g">>)

\* every required setting present, every optional one absent
GoodEnv ==
    [n \in SettingNames |-> IF n \in RequiredNames THEN Some(<<"v">>) ELSE None]

\* what the environment may hold for a setting
EnvValues(n) ==
    IF n \in RequiredNames THEN {None, Some(<<>>), Some(<<"v">>)}
    ELSE IF n = "SMTP_PORT" THEN {None, Some(<<"2","5">>), Some(<<"x">>)}
    ELSE {None, Some(<<"c">>)}

RECURSIVE EnvironmentsFrom(_)
\* the environments that differ from GoodEnv in settings i and later
EnvironmentsFrom(i) ==
    IF i > Len(Settings) THEN {GoodEnv}
    ELSE {[e EXCEPT ![Settings[i].name] = v] :
             e \in EnvironmentsFrom(i + 1), v \in EnvValues(Settings[i].name)}

Environments == EnvironmentsFrom(1)

Args(test, coach, to) == [test |-> test, coach |-> coach, to |-> to]

\* every command line over two values and the absence of --coach and --to
CommandLines ==
    {Args(t, c, o) : t \in BOOLEAN, c \in {None, Some(<<>>), Some(jo)},
                     o \in {None, Some(<<>>), Some(Override)}}

Production == Args(FALSE, None, None)
TestRun == Args(TRUE, Some(jo), Some(Override))

InitWith(envs, lines, tables, dirs, faulty) ==
    /\ environ \in envs
    /\ argv \in lines
    /\ submissions \in tables
    /\ directory \in dirs
    /\ faults = faulty
    /\ pc = "import"
    /\ config = NoConfig
    /\ mode = None
    /\ conn = "none"
    /\ exc = FALSE
    /\ rows = <<>>
    /\ coaches = <<>>
    /\ idx = 0
    /\ html = None
    /\ errors = <<>>
    /\ outbox = <<>>
    /\ log = <<>>
    /\ exit = None

MaxSubs == 2

\* consented submissions for three coaches, in last week and this week
RunSubs ==
    {Sub(Some(c), d, Some(Yes), Member, Some(4)) :
        c \in {Jo, jo, Al}, d \in {LastWeek, ThisWeek}}

Init == InitWith({GoodEnv}, CommandLines, Tables(RunSubs, MaxSubs), {Directory}, TRUE)

Spec == Init /\ [][Next]_vars

---------------------------------------------------------------------------
(* The settings, over every environment *)

\* one table: two coaches' submissions last week, one this week
ConfigTable ==
    LET rs == << Sub(Some(Jo), LastWeek, Some(Yes), Member, Some(4)),
                 Sub(Some(Al), LastWeek, Some(Yes), Member, Some(5)),
                 Sub(Some(jo), ThisWeek, Some(Yes), Member, None) >>
    IN {[i \in 1..Len(rs) |-> [rs[i] EXCEPT !.submission_id = i]]}

InitConfig == InitWith(Environments, {Production, TestRun}, ConfigTable, {Directory}, TRUE)

SpecConfig == InitConfig /\ [][Next]_vars

---------------------------------------------------------------------------
(* The query, over consent answers *)

\* consent answers: absent, empty, and texts with and without a leading
\* "yes" and an "anonym", in several cases
ConsentAnswers ==
    {None} \cup {Some(a) : a \in {
        <<>>,
        <<"Y","e","s">>,
        <<"Y","E","S">>,
        <<"y","e","s">>,
        <<"N","o">>,
        <<"Y","e">>,
        <<" ","Y","e","s">>,
        <<"N","o",","," ","y","e","s">>,
        <<"Y","e","s",","," ","A","n","o","n","y","m","o","u","s">>,
        <<"y","e","s"," ","A","N","O","N","Y","M","o","u","s","l","y">>,
        <<"a","n","o","n","y","m","o","u","s">>,
        <<"Y","e","s",","," ","a","n","o","n">>,
        <<"Y","e","s","t","e","r","d","a","y">>}}

MaxSubsQuery == 2

QuerySubs ==
    {Sub(Some(Jo), LastWeek, c, Member, Some(4)) : c \in ConsentAnswers}
    \cup {Sub(Some(jo), ThisWeek, c, Member, None) :
             c \in {Some(Yes), Some(No),
                    Some(<<"Y","e","s",","," ","A","n","o","n","y","m","o","u","s">>)}}
    \cup {Sub(Some(jo), ThisWeek, Some(Yes), None, None)}
    \cup {Sub(co, LastWeek, Some(Yes), Member, Some(4)) : co \in {None, Some(Zed)}}
    \cup {Sub(Some(Jo), LastWeek - DaysPerWeek, Some(Yes), Member, Some(4))}

InitQuery ==
    InitWith({GoodEnv}, {Production, TestRun}, Tables(QuerySubs, MaxSubsQuery),
             {Directory}, FALSE)

SpecQuery == InitQuery /\ [][Next]_vars

---------------------------------------------------------------------------
(* The report, over ratings *)

MaxRated == 4

RatedSubs ==
    {Sub(Some(Jo), LastWeek, Some(Yes), Member, r) :
        r \in {None} \cup {Some(n) : n \in {0, 3, 4, MaxRating}}}
    \cup {Sub(Some(Al), LastWeek, Some(Yes), Member, Some(1))}

\* the tables of Tables(C, n) with row i created on day i of its week
TablesSpread(C, n) ==
    {[i \in 1..Len(tb) |->
         [tb[i] EXCEPT !.created_at = DateTruncWeek(@) + (i % DaysPerWeek)]] :
       tb \in Tables(C, n)}

InitRender ==
    InitWith({GoodEnv}, {Production}, TablesSpread(RatedSubs, MaxRated),
             {Directory}, FALSE)

SpecRender == InitRender /\ [][Next]_vars

---------------------------------------------------------------------------
(* The grouping, over result orders *)

MaxGrouped == 3

GroupSubs ==
    {Sub(Some(c), d, Some(Yes), Member, Some(4)) :
        c \in {Jo, jo, Al}, d \in {LastWeek, LastWeek + 1}}

\* fewer submissions under the directory that doubles a coach's rows
MaxGroupedTwice == 2

InitGroup ==
    \/ InitWith({GoodEnv}, {Production}, Tables(GroupSubs, MaxGrouped),
                {Directory}, FALSE)
    \/ InitWith({GoodEnv}, {Production}, Tables(GroupSubs, MaxGroupedTwice),
                {DirectoryTwice}, FALSE)

SpecGroup == InitGroup /\ [][Next]_vars

---------------------------------------------------------------------------
(* Properties *)

\* the entries of the history made by the call op, in order
Calls(op) == SelectSeq(log, LAMBDA e : e.op = op)

\* the call op was made for the coach name and raised
Raised(op, name) ==
    \E i \in 1..Len(log) : log[i].op = op /\ log[i].arg = name /\ log[i].raised

\* how often the call op was made for the coach name
TimesCalled(op, name) ==
    Cardinality({i \in 1..Len(log) : log[i].op = op /\ log[i].arg = name})

\* the relay accepted a message for the coach name
Mailed(name) ==
    \E i \in 1..Len(log) :
        log[i].op = "smtp.send_message" /\ log[i].arg = name /\ ~log[i].raised

\* fetch_feedback returned
FetchReturned == pc \in {"close", "check", "render", "send", "finish", "exit"}
                 /\ ~exc /\ Calls("cursor.execute") # <<>>

\* the per-coach loop has run to its end
LoopDone == coaches # <<>> /\ idx = Len(coaches) + 1

\* a network call: a warehouse connection, a query, an SMTP session
NetworkOps == {"load_pem_private_key", "snowflake.connect", "conn.cursor",
               "cursor.execute", "smtplib.SMTP", "smtp.send_message"}

NoNetworkActivity ==
    /\ conn = "none"
    /\ outbox = <<>>
    /\ \A i \in 1..Len(log) : log[i].op \notin NetworkOps

\* C1: once the loop is over a non-empty mapping, render_report was called
\* once per coach, in mapping order; send_email was called once for each
\* coach whose render did not raise and for no other; and the relay took a
\* message for exactly the coaches whose render and send both did not raise.
C1_AttemptsIsolatedAndMailExactlyForSuccesses ==
    LoopDone =>
        /\ [k \in 1..Len(Calls("render_report")) |-> Calls("render_report")[k].arg]
             = [k \in 1..Len(coaches) |-> coaches[k].coach_name]
        /\ \A k \in 1..Len(coaches) :
             LET name == coaches[k].coach_name
             IN /\ TimesCalled("send_email", name)
                     = IF Raised("render_report", name) THEN 0 ELSE 1
                /\ Mailed(name) <=> /\ ~Raised("render_report", name)
                                    /\ TimesCalled("send_email", name) = 1
                                    /\ ~Raised("send_email", name)

\* the coaches whose render or send raised
FailedCoaches ==
    {coaches[k].coach_name : k \in {j \in 1..Len(coaches) :
        \/ Raised("render_report", coaches[j].coach_name)
        \/ Raised("send_email", coaches[j].coach_name)}}

\* C2: when the process has ended after fetch_feedback returned, the exit
\* status is 1 if some coach's render or send raised and 0 if none did; an
\* empty mapping ends with status 0 and no message sent; the failure list
\* holds each failed coach once and no other coach, and it is the list logged.
C2_ExitStatusAndFailureList ==
    (pc = "exit" /\ FetchReturned) =>
        /\ exit = Some(IF FailedCoaches # {} THEN 1 ELSE 0)
        /\ coaches = <<>> => (outbox = <<>> /\ Calls("smtplib.SMTP") = <<>>
                              /\ exit = Some(0))
        /\ {errors[i] : i \in 1..Len(errors)} = FailedCoaches
        /\ \A i, j \in 1..Len(errors) : errors[i] = errors[j] => i = j
        /\ IF FailedCoaches # {}
           THEN log[Len(log)] = Event("log.finished_with_errors", errors, FALSE)
           ELSE Calls("log.finished_with_errors") = <<>>

\* the partial failure: two coaches, the first mailed, the second failed
C2_Witness ==
    /\ pc = "exit" /\ FetchReturned
    /\ Len(coaches) = 2
    /\ Len(outbox) = 1
    /\ errors = <<coaches[2].coach_name>>
    /\ ~Mailed(coaches[2].coach_name)
    /\ exit = Some(1)

\* the positions in the history of a call op
Positions(op) == {i \in 1..Len(log) : log[i].op = op}

\* C3: a connection that was opened is closed once, never twice, and before
\* any report is rendered or any mail session opened; when fetch_feedback
\* raises, the close comes after the raise and before the process ends, no
\* message is sent and the exit status is not 0.
C3_ConnectionClosedOnceBeforeReports ==
    /\ Cardinality(Positions("conn.close")) <= 1
    /\ conn = "open" <=> (pc \in {"fetch", "close"})
    /\ conn = "open" => Positions("conn.close") = {}
    /\ (Calls("snowflake.connect") # <<>> /\ ~Calls("snowflake.connect")[1].raised
          /\ pc \in {"check", "render", "send", "finish", "exit"})
         => (conn = "closed" /\ Cardinality(Positions("conn.close")) = 1)
    /\ \A i \in Positions("render_report") \cup Positions("smtplib.SMTP")
                  \cup Positions("send_email") \cup Positions("smtp.send_message") :
         \E c \in Positions("conn.close") : c < i
    /\ exc => /\ outbox = <<>>
              /\ Positions("render_report") \cup Positions("smtplib.SMTP") = {}
              /\ exit # Some(0)
              /\ pc \in {"close", "exit"}
              /\ pc = "close" => (exit = None /\ conn = "open")
              /\ pc = "exit" =>
                   /\ exit = Some(1)
                   /\ conn = "closed"
                   /\ log[Len(log)].op = "conn.close"
                   /\ log[Len(log) - 1].raised

\* the query raised, the connection was closed, the process ended with 1
C3_Witness ==
    /\ exc /\ pc = "exit" /\ conn = "closed" /\ exit = Some(1)
    /\ Raised("cursor.execute", "")

\* C4: a --test run whose --coach or --to is missing or empty never gets past
\* the argument check: it opens no warehouse connection, runs no query,
\* opens no SMTP session, and ends with status 1.
C4_TestModeUsageError ==
    (argv.test /\ (argv.coach \in {None, Some(<<>>)} \/ argv.to \in {None, Some(<<>>)}))
        => /\ pc \in {"import", "main", "exit"}
           /\ NoNetworkActivity
           /\ pc = "exit" => exit = Some(1)

\* --test with an empty --coach has ended with status 1
C4_Witness ==
    /\ argv.test /\ argv.coach = Some(<<>>) /\ argv.to # None
    /\ pc = "exit" /\ exit = Some(1)
    /\ Calls("log.usage") # <<>>

\* the default of an optional setting, as the settings hold it
DefaultValue(n) ==
    LET s == Settings[CHOOSE i \in 1..Len(Settings) : Settings[i].name = n]
    IN IF n = "SMTP_PORT" THEN NatOfStr(s.default) ELSE s.default

\* C5: with a required setting absent the import ends the process with
\* status 1 and nothing touches the network; an optional setting that is
\* absent never ends the import, and gets its default.
C5_RequiredSettingsAndDefaults ==
    /\ (\E n \in {"SNOWFLAKE_ACCOUNT", "SNOWFLAKE_USER", "SNOWFLAKE_PRIVATE_KEY_PEM",
                  "SMTP_USER", "SMTP_PASS"} : environ[n] = None)
         => /\ pc \in {"import", "exit"}
            /\ NoNetworkActivity
            /\ pc = "exit" => exit = Some(1)
    /\ \A n \in {"SNOWFLAKE_DATABASE", "SNOWFLAKE_WAREHOUSE", "SNOWFLAKE_ROLE",
                 "SMTP_SERVER", "SMTP_PORT", "EMAIL_FROM", "EMAIL_FROM_NAME"} :
         environ[n] = None =>
            /\ \A i \in Positions("log.missing_env") \cup Positions("int") :
                 log[i].arg # n
            /\ config[n] \in {None, Some(DefaultValue(n))}
            /\ pc \notin {"import", "exit"} => config[n] = Some(DefaultValue(n))

\* the private key is the first setting absent: the import ended with 1
C5_Witness ==
    /\ environ["SNOWFLAKE_PRIVATE_KEY_PEM"] = None
    /\ environ["SNOWFLAKE_ACCOUNT"] = Some(<<"v">>)
    /\ environ["SNOWFLAKE_USER"] = Some(<<"v">>)
    /\ environ["SNOWFLAKE_ROLE"] = None
    /\ config["SNOWFLAKE_ROLE"] = Some(<<>>)
    /\ pc = "exit" /\ exit = Some(1)

\* the reports rendered so far: the one in hand and those mailed
Reports ==
    {outbox[i].html : i \in 1..Len(outbox)}
      \cup (IF html = None THEN {} ELSE {Val(html)})

\* the group of the mapping a report was rendered from
GroupOf(name) == coaches[CHOOSE k \in 1..Len(coaches) : coaches[k].coach_name = name]

\* C6: in test mode every message goes to the --to address, not to the
\* address of the coach it reports on, under a subject that starts with
\* "[TEST] "; in production every message goes to the address the directory
\* gives for the coach it reports on, and its subject holds no "[TEST] ".
C6_RecipientAndSubjectByMode ==
    \A i \in 1..Len(outbox) :
        LET m == outbox[i]
            coach == GroupOf(m.html.coach_name)
        IN IF argv.test
           THEN /\ m.To.addr = Val(argv.to)
                /\ m.To.addr # coach.coach_email
                /\ StartsWith(m.Subject, <<"[","T","E","S","T","]"," ">>)
           ELSE /\ m.To.addr = coach.coach_email
                /\ \E d \in 1..Len(directory) :
                     /\ directory[d].coach_name = Val(m.html.coach_name)
                     /\ directory[d].coach_email = m.To.addr
                /\ ~Contains(m.Subject, <<"[","T","E","S","T","]"," ">>)

\* a test run whose filter matched two coaches has mailed both reports
C6_Witness ==
    /\ argv.test
    /\ Len(coaches) = 2
    /\ Len(outbox) = 2
    /\ outbox[1].html.coach_name # outbox[2].html.coach_name

\* the consent answer starts with "yes" in any case
StartsWithYes(consent_raw) ==
    /\ consent_raw # None
    /\ Len(Val(consent_raw)) >= 3
    /\ Val(consent_raw)[1] \in {"Y", "y"}
    /\ Val(consent_raw)[2] \in {"E", "e"}
    /\ Val(consent_raw)[3] \in {"S", "s"}

\* the consent answer contains "anonym" in any case
HasAnonym(consent_raw) ==
    /\ consent_raw # None
    /\ \E i \in 1..Len(Val(consent_raw)) - 5 :
         /\ Val(consent_raw)[i]     \in {"A", "a"}
         /\ Val(consent_raw)[i + 1] \in {"N", "n"}
         /\ Val(consent_raw)[i + 2] \in {"O", "o"}
         /\ Val(consent_raw)[i + 3] \in {"N", "n"}
         /\ Val(consent_raw)[i + 4] \in {"Y", "y"}
         /\ Val(consent_raw)[i + 5] \in {"M", "m"}

\* the submission ids found in a sequence of rows
IdsIn(rs) == {rs[k].submission_id : k \in 1..Len(rs)}

\* C7: a submission whose consent answer is absent or does not start with
\* "yes" has consent_to_share false, and none of its rows is in the query
\* output, in a group of the mapping, or in a report rendered or mailed.
C7_NoConsentNoRow ==
    \A i \in 1..Len(submissions) :
        ~StartsWithYes(submissions[i].consent_raw) =>
            /\ Final(submissions[i]).consent_to_share = FALSE
            /\ i \notin IdsIn(rows)
            /\ \A k \in 1..Len(coaches) : i \notin IdsIn(coaches[k].rows)
            /\ \A r \in Reports : i \notin IdsIn(r.feedback_rows)

\* two submissions for one coach and week, one consented and mailed, the
\* other with an answer that only contains "yes"
C7_Witness ==
    /\ Len(submissions) = 2
    /\ submissions[1].consent_raw = Some(<<"N","o",","," ","y","e","s">>)
    /\ StartsWithYes(submissions[2].consent_raw)
    /\ Len(outbox) = 1
    /\ IdsIn(outbox[1].html.feedback_rows) = {2}
    /\ pc = "exit"

\* C8: an output row whose consent answer starts with "yes" and contains
\* "anonym" has share_anonymized true and a null member_name whatever the
\* submission's member name; one whose answer starts with "yes" without
\* "anonym" has share_anonymized false and the submission's member name.
C8_AnonymizedRowsHideMember ==
    \A k \in 1..Len(rows) :
        LET row == rows[k]
            sub == submissions[row.submission_id]
        IN /\ (StartsWithYes(sub.consent_raw) /\ HasAnonym(sub.consent_raw))
                => (row.share_anonymized = Some(TRUE) /\ row.member_name = None)
           /\ (StartsWithYes(sub.consent_raw) /\ ~HasAnonym(sub.consent_raw))
                => (row.share_anonymized = Some(FALSE)
                    /\ row.member_name = sub.member_name)

\* an anonymized row of a submission that names its member, and a plain one
C8_Witness ==
    /\ Len(rows) = 2
    /\ \E k \in 1..2 : /\ rows[k].share_anonymized = Some(TRUE)
                       /\ submissions[rows[k].submission_id].member_name # None
                       /\ rows[k].member_name = None
    /\ \E k \in 1..2 : /\ rows[k].share_anonymized = Some(FALSE)
                       /\ rows[k].member_name # None

RECURSIVE RatingTotal(_)
\* the ratings of the rows added up, a null rating adding nothing
RatingTotal(rs) ==
    IF rs = <<>> THEN 0
    ELSE (IF Head(rs).rating = None THEN 0 ELSE Val(Head(rs).rating))
           + RatingTotal(Tail(rs))

\* how many of the rows have a rating
RatedCount(rs) == Cardinality({k \in 1..Len(rs) : rs[k].rating # None})

\* C9: a report counts every row of its group in total_responses; its
\* avg_rating is absent exactly when no row of the group has a rating, and
\* is otherwise a number of tenths no further than half a tenth from the
\* mean of the group's ratings.
C9_AvgRatingIsRoundedMean ==
    \A r \in Reports :
        LET rs == GroupOf(r.coach_name).rows
            n == RatedCount(rs)
            d == 10 * RatingTotal(rs) - (IF n = 0 THEN 0 ELSE Val(r.avg_rating) * n)
        IN /\ r.total_responses = Len(rs)
           /\ r.avg_rating = None <=> n = 0
           /\ n > 0 => (2 * d <= n /\ 2 * (0 - d) <= n)

\* a report over four rows, one unrated, whose mean is not a whole tenth
C9_Witness ==
    \E i \in 1..Len(outbox) :
        LET r == outbox[i].html
            rs == GroupOf(r.coach_name).rows
        IN /\ r.total_responses = 4
           /\ RatedCount(rs) = 3
           /\ r.avg_rating # None
           /\ (10 * RatingTotal(rs)) % 3 = 2
           /\ \E k \in 1..4 : rs[k].rating = Some(0)

\* the rows of rs with the coach name name, in order
RowsOf(rs, name) == SelectSeq(rs, LAMBDA r : r.coach_name = name)

\* C10: once fetch_feedback has returned, each group holds exactly the
\* fetched rows of its coach_name in result order, no group is empty, no
\* two groups have the same name, every row is in a group, and a group's
\* coach_email and week_start are those of its coach's first row.
C10_GroupingPartitionsRows ==
    FetchReturned =>
        /\ \A k \in 1..Len(coaches) :
             /\ coaches[k].rows = RowsOf(rows, coaches[k].coach_name)
             /\ coaches[k].rows # <<>>
             /\ coaches[k].coach_email = Head(RowsOf(rows, coaches[k].coach_name)).coach_email
             /\ coaches[k].week_start = Head(RowsOf(rows, coaches[k].coach_name)).week_start
        /\ \A j, k \in 1..Len(coaches) :
             coaches[j].coach_name = coaches[k].coach_name => j = k
        /\ \A i \in 1..Len(rows) :
             \E k \in 1..Len(coaches) : coaches[k].coach_name = rows[i].coach_name

\* three rows, a coach's two around another coach's, the two with different
\* addresses
C10_Witness ==
    /\ FetchReturned
    /\ Len(rows) = 3
    /\ rows[1].coach_name = rows[3].coach_name
    /\ rows[1].coach_name # rows[2].coach_name
    /\ rows[1].coach_email # rows[3].coach_email
    /\ Len(coaches) = 2

=============================================================================
